---- MODULE Spec2Model ----
(***************************************************************************)
(* Plate air-to-air heat exchanger sizing tool (HEX_sales_tool.py).        *)
(*                                                                         *)
(* The script is a Streamlit page: its state is the value of the nine      *)
(* input widgets; every edit of a widget re-runs the whole script, which   *)
(* recomputes every derived quantity from the widget values.  The widget   *)
(* values are the VARIABLES, one action per widget is an edit followed by  *)
(* the re-run, and the script's computed names (m_hot ... stack_depth) are *)
(* the state functions below, written in the order of the script.          *)
(*                                                                         *)
(* Python floats are modelled as exact rationals [n, d] in lowest terms    *)
(* with d > 0; d = 0 encodes the non-finite floats: 0/0 is nan, 1/0 is     *)
(* +inf and -1/0 is -inf.  np.log is a fixed-point series.                 *)
(***************************************************************************)
EXTENDS Integers, Sequences, FiniteSets, TLC

VARIABLES Q, T_hot_in, T_cold_in, flow_hot, flow_cold, eff,
          plate_length, plate_height, plate_gap

vars == <<Q, T_hot_in, T_cold_in, flow_hot, flow_cold, eff,
          plate_length, plate_height, plate_gap>>

-----------------------------------------------------------------------------
(* Float arithmetic.                                                       *)

Abs(i) == IF i < 0 THEN -i ELSE i

Sign(i) == IF i < 0 THEN -1 ELSE IF i > 0 THEN 1 ELSE 0

RECURSIVE GCD(_, _)
GCD(a, b) == IF b = 0 THEN a ELSE GCD(b, a % b)

\* the float n/d (d = 0: a non-finite float of the sign of n)
R(n, d) ==
    IF d = 0 THEN [n |-> Sign(n), d |-> 0]
    ELSE LET g == GCD(Abs(n), Abs(d))
             s == Sign(d)
         IN  [n |-> s * (n \div g), d |-> s * (d \div g)]

NaN == [n |-> 0, d |-> 0]

IsNaN(x) == x.d = 0 /\ x.n = 0

IsFinite(x) == x.d # 0

Zero == R(0, 1)

\* comparisons: every comparison with nan is false, as in IEEE 754
RLt(x, y) ==
    /\ ~IsNaN(x) /\ ~IsNaN(y)
    /\ IF IsFinite(x) /\ IsFinite(y) THEN x.n * y.d < y.n * x.d
       ELSE IF ~IsFinite(x) /\ ~IsFinite(y) THEN x.n < y.n
       ELSE IF IsFinite(x) THEN y.n > 0
       ELSE x.n < 0

REq(x, y) == ~IsNaN(x) /\ ~IsNaN(y) /\ x = y

RLe(x, y) == RLt(x, y) \/ REq(x, y)

RGt(x, y) == RLt(y, x)

\* + - * on finite floats; a non-finite operand gives nan
RAdd(x, y) ==
    IF IsFinite(x) /\ IsFinite(y)
    THEN LET g == GCD(x.d, y.d)
         IN  R(x.n * (y.d \div g) + y.n * (x.d \div g), (x.d \div g) * y.d)
    ELSE NaN

RNeg(x) == [n |-> -x.n, d |-> x.d]

RSub(x, y) == RAdd(x, RNeg(y))

RMul(x, y) ==
    IF IsFinite(x) /\ IsFinite(y)
    THEN LET g1 == GCD(Abs(x.n), y.d)
             g2 == GCD(Abs(y.n), x.d)
         IN  IF x.n = 0 \/ y.n = 0 THEN Zero
             ELSE R((x.n \div g1) * (y.n \div g2), (x.d \div g2) * (y.d \div g1))
    ELSE NaN

\* float division as numpy does it: x/0 is +-inf, 0/0 is nan
RDiv(x, y) ==
    IF IsFinite(x) /\ IsFinite(y)
    THEN IF y.n = 0 THEN R(x.n, 0)
         ELSE RMul(x, [n |-> Sign(y.n) * y.d, d |-> Abs(y.n)])
    ELSE NaN

\* Python's min(a, b): b if b < a, else a
RMin(a, b) == IF RLt(b, a) THEN b ELSE a

\* np.ceil of a finite float, as an integer
Ceil(x) == -((-x.n) \div x.d)

\* precision of the logarithm's series: its terms are multiples of 1/LnScale
LnScale == 10000

\* number of terms of the series ln x = 2z(1 + z^2/3 + z^4/5 + ...),
\* z = (x-1)/(x+1)
LnTerms == 40

RECURSIVE LnSeries(_, _, _)
LnSeries(t, z2, k) ==
    IF t = 0 \/ k > LnTerms THEN 0
    ELSE t \div (2 * k + 1) + LnSeries((t * z2) \div LnScale, z2, k + 1)

\* np.log: the natural logarithm of a float; nan outside x > 0.  The factor
\* 2z is exact, so the result is 0 only at x = 1, as for a float.
Ln(x) ==
    IF ~IsFinite(x) \/ x.n <= 0 THEN NaN
    ELSE LET z  == R(x.n - x.d, x.n + x.d)
             zS == (LnScale * Abs(z.n)) \div z.d
             z2 == (zS * zS) \div LnScale
         IN  RMul(R(2 * z.n, z.d), R(LnSeries(LnScale, z2, 0), LnScale))

-----------------------------------------------------------------------------
(* The widgets: the values a user can enter (lines 11-21).                 *)

\* largest heat load offered, in steps of 5 kW
MaxLoadK == 2

\* largest flow offered, in steps of 500 m3/h
MaxFlowK == 2

\* st.number_input("Heat load (kW)", min_value=0.1, ...) * 1000
QMin == 100

QValues == {R(QMin, 1)} \cup {R(k * 5000, 1) : k \in 1..MaxLoadK}

\* number_input without min_value: any float, negative and zero included
HotTempValues == {R(20, 1), R(60, 1)}

ColdTempValues == {R(20, 1), R(30, 1)}

FlowValues == {R(k * 500, 1) : k \in -1..MaxFlowK}

\* st.slider("Assumed effectiveness (%)", 50, 90, 70) / 100
EffValues == {R(p, 100) : p \in {50, 70, 90}}

PlateLengthValues == {R(-1, 2), R(0, 1), R(1, 2)}

PlateHeightValues == {R(3, 10), R(1, 1)}

PlateGapValues == {R(3, 1000), R(4, 1000)}

-----------------------------------------------------------------------------
(* The script, top to bottom (lines 23-67).                                *)

cp == 1005

rho == R(12, 10)

m_hot == RMul(RDiv(flow_hot, R(3600, 1)), rho)

m_cold == RMul(RDiv(flow_cold, R(3600, 1)), rho)

C_hot == RMul(m_hot, R(cp, 1))

C_cold == RMul(m_cold, R(cp, 1))

C_min == RMin(C_hot, C_cold)

Q_max == RMul(C_min, RSub(T_hot_in, T_cold_in))

\* the ceiling is not derated by the effectiveness
Q_calc_NoDerating == RMin(Q, Q_max)

\* the requested load is not taken into account
Q_calc_NoLoadCap == RMul(eff, Q_max)

Q_calc == RMin(Q, RMul(eff, Q_max))

T_hot_out ==
    IF RGt(C_hot, Zero) THEN RSub(T_hot_in, RDiv(Q_calc, C_hot)) ELSE T_hot_in

\* the division is not guarded
T_cold_out_NoGuard == RAdd(T_cold_in, RDiv(Q_calc, C_cold))

T_cold_out ==
    IF RGt(C_cold, Zero) THEN RAdd(T_cold_in, RDiv(Q_calc, C_cold)) ELSE T_cold_in

dT1 == RSub(T_hot_in, T_cold_out)

dT2 == RSub(T_hot_out, T_cold_in)

\* the equal-differences case is not singled out
LMTD_NoEqualGuard ==
    LET d1 == dT1
        d2 == dT2
    IN  IF RLe(d1, Zero) \/ RLe(d2, Zero) \/ IsNaN(d1) \/ IsNaN(d2)
        THEN NaN
        ELSE RDiv(RSub(d1, d2), Ln(RDiv(d1, d2)))

LMTD ==
    LET d1 == dT1
        d2 == dT2
    IN  IF REq(d1, d2) \/ RLe(d1, Zero) \/ RLe(d2, Zero) \/ IsNaN(d1) \/ IsNaN(d2)
        THEN IF RGt(d1, Zero) /\ RGt(d2, Zero)
             THEN RDiv(RAdd(d1, d2), R(2, 1))
             ELSE NaN
        ELSE RDiv(RSub(d1, d2), Ln(RDiv(d1, d2)))

U == 25

\* the nan test is left out
InvalidTemperatureDifference_NoNaNTest == RLe(LMTD, Zero)

\* the branch of line 58: st.error("Invalid temperature difference ...")
InvalidTemperatureDifference ==
    LET lmtd == LMTD IN RLe(lmtd, Zero) \/ IsNaN(lmtd)

A_req ==
    IF InvalidTemperatureDifference THEN NaN
    ELSE RDiv(Q_calc, RMul(R(U, 1), LMTD))

A_plate == RMul(plate_length, plate_height)

\* int() of a non-finite float raises (OverflowError / ValueError), and a
\* Python float divided by 0.0 raises ZeroDivisionError: line 66 ends the run
Raised == ~InvalidTemperatureDifference /\ ~IsFinite(RDiv(A_req, A_plate))

\* the name is never assigned when line 66 raises
Unassigned == "unassigned"

\* int() without np.ceil: truncation toward zero
n_plates_Truncated ==
    IF InvalidTemperatureDifference THEN 0
    ELSE LET x == RDiv(A_req, A_plate)
         IN  IF ~IsFinite(x) THEN Unassigned
             ELSE Sign(x.n) * (Abs(x.n) \div x.d)

n_plates ==
    IF InvalidTemperatureDifference THEN 0
    ELSE LET x == RDiv(A_req, A_plate)
         IN  IF ~IsFinite(x) THEN Unassigned ELSE Ceil(x)

\* the failure branch leaves one plate gap of depth
stack_depth_GapOnFailure ==
    IF InvalidTemperatureDifference THEN plate_gap
    ELSE LET n == n_plates
         IN  IF n \in Int THEN RMul(R(n, 1), plate_gap) ELSE Unassigned

\* line 67 is reached only when line 66 assigned n_plates
stack_depth ==
    IF InvalidTemperatureDifference THEN Zero
    ELSE LET n == n_plates
         IN  IF n \in Int THEN RMul(R(n, 1), plate_gap) ELSE Unassigned

\* the else branch ran to the end: results are shown
Success == ~InvalidTemperatureDifference /\ ~Raised

-----------------------------------------------------------------------------
(* The page: defaults, then one edit (and re-run) at a time.               *)

Init ==
    /\ Q = R(5000, 1)
    /\ T_hot_in = R(60, 1)
    /\ T_cold_in = R(30, 1)
    /\ flow_hot = R(1000, 1)
    /\ flow_cold = R(1000, 1)
    /\ eff = R(70, 100)
    /\ plate_length = R(1, 2)
    /\ plate_height = R(3, 10)
    /\ plate_gap = R(3, 1000)

SetQ ==
    /\ \E v \in QValues \ {Q} : Q' = v
    /\ UNCHANGED <<T_hot_in, T_cold_in, flow_hot, flow_cold, eff,
                   plate_length, plate_height, plate_gap>>

SetTHotIn ==
    /\ \E v \in HotTempValues \ {T_hot_in} : T_hot_in' = v
    /\ UNCHANGED <<Q, T_cold_in, flow_hot, flow_cold, eff,
                   plate_length, plate_height, plate_gap>>

SetTColdIn ==
    /\ \E v \in ColdTempValues \ {T_cold_in} : T_cold_in' = v
    /\ UNCHANGED <<Q, T_hot_in, flow_hot, flow_cold, eff,
                   plate_length, plate_height, plate_gap>>

SetFlowHot ==
    /\ \E v \in FlowValues \ {flow_hot} : flow_hot' = v
    /\ UNCHANGED <<Q, T_hot_in, T_cold_in, flow_cold, eff,
                   plate_length, plate_height, plate_gap>>

SetFlowCold ==
    /\ \E v \in FlowValues \ {flow_cold} : flow_cold' = v
    /\ UNCHANGED <<Q, T_hot_in, T_cold_in, flow_hot, eff,
                   plate_length, plate_height, plate_gap>>

SetEff ==
    /\ \E v \in EffValues \ {eff} : eff' = v
    /\ UNCHANGED <<Q, T_hot_in, T_cold_in, flow_hot, flow_cold,
                   plate_length, plate_height, plate_gap>>

SetPlateLength ==
    /\ \E v \in PlateLengthValues \ {plate_length} : plate_length' = v
    /\ UNCHANGED <<Q, T_hot_in, T_cold_in, flow_hot, flow_cold, eff,
                   plate_height, plate_gap>>

SetPlateHeight ==
    /\ \E v \in PlateHeightValues \ {plate_height} : plate_height' = v
    /\ UNCHANGED <<Q, T_hot_in, T_cold_in, flow_hot, flow_cold, eff,
                   plate_length, plate_gap>>

SetPlateGap ==
    /\ \E v \in PlateGapValues \ {plate_gap} : plate_gap' = v
    /\ UNCHANGED <<Q, T_hot_in, T_cold_in, flow_hot, flow_cold, eff,
                   plate_length, plate_height>>

Next ==
    \/ SetQ
    \/ SetTHotIn
    \/ SetTColdIn
    \/ SetFlowHot
    \/ SetFlowCold
    \/ SetEff
    \/ SetPlateLength
    \/ SetPlateHeight
    \/ SetPlateGap

Spec == Init /\ [][Next]_vars

-----------------------------------------------------------------------------
(* Properties.                                                             *)

Two == R(2, 1)

\* one side has no flow and the hot inlet is the warmer one
ZeroFlowCold == REq(flow_cold, Zero) /\ RGt(T_hot_in, T_cold_in)

ZeroFlowHot == REq(flow_hot, Zero) /\ RGt(T_hot_in, T_cold_in)

\* C1 as stated: with zero flow on one side and hot_inlet > cold_inlet, that
\* side's capacity rate is 0, its outlet equals its inlet, Q_max = 0,
\* Q_actual = 0 and the result is the InvalidTemperatureDifference failure.
C1_ZeroFlowFails ==
    /\ ZeroFlowCold =>
          /\ REq(C_cold, Zero) /\ REq(T_cold_out, T_cold_in)
          /\ REq(Q_max, Zero) /\ REq(Q_calc, Zero)
          /\ InvalidTemperatureDifference
    /\ ZeroFlowHot =>
          /\ REq(C_hot, Zero) /\ REq(T_hot_out, T_hot_in)
          /\ REq(Q_max, Zero) /\ REq(Q_calc, Zero)
          /\ InvalidTemperatureDifference

\* what every zero-flow run has in common: no transfer above zero, equal
\* temperature differences hot_inlet - cold_inlet, LMTD their mean, no failure
ZeroFlowOutcome ==
    /\ RLe(Q_max, Zero) /\ REq(Q_calc, RMul(eff, Q_max))
    /\ (RLe(Zero, flow_hot) /\ RLe(Zero, flow_cold)) =>
          REq(Q_max, Zero) /\ REq(Q_calc, Zero)
    /\ REq(dT1, RSub(T_hot_in, T_cold_in))
    /\ REq(dT2, RSub(T_hot_in, T_cold_in))
    /\ ~InvalidTemperatureDifference
    /\ REq(LMTD, RSub(T_hot_in, T_cold_in))
    /\ REq(RMul(A_req, RMul(R(U, 1), LMTD)), Q_calc)
    /\ REq(Q_calc, Zero) => REq(A_req, Zero)
    /\ (Success /\ REq(Q_calc, Zero)) => n_plates = 0 /\ REq(stack_depth, Zero)

\* C1 amended: with zero flow on one side and hot_inlet > cold_inlet, that
\* side's capacity rate is 0 and its outlet equals its inlet, Q_max = 0 and
\* Q_actual = 0 (both negative only if the other flow is negative), and the
\* result is NOT the failure: dT1 = dT2 = hot_inlet - cold_inlet > 0, the
\* LMTD is that value, and the required area is Q_actual / (U * LMTD) = 0,
\* giving 0 plates and 0 stack depth.
C1_ZeroFlowSucceedsWithZeroArea ==
    /\ ZeroFlowCold =>
          /\ REq(C_cold, Zero) /\ REq(T_cold_out, T_cold_in)
          /\ ZeroFlowOutcome
    /\ ZeroFlowHot =>
          /\ REq(C_hot, Zero) /\ REq(T_hot_out, T_hot_in)
          /\ ZeroFlowOutcome

\* C1 witness: no cold flow, positive hot flow, results shown with 0 plates
C1_Witness ==
    /\ ZeroFlowCold /\ RGt(flow_hot, Zero)
    /\ Success /\ n_plates = 0 /\ REq(A_req, Zero)

\* C2 as stated: plate_count is a non-negative integer in every result,
\* success or failure, for every combination of inputs.
C2_PlateCountNonNegative ==
    ~Raised => n_plates \in Nat

\* C3: a temperature cross (dT1 <= 0 or dT2 <= 0) gives the failure with
\* plate_count = 0, stack depth 0 and no area; never an area, never a raise.
C3_TemperatureCrossFails ==
    (RLe(dT1, Zero) \/ RLe(dT2, Zero)) =>
        /\ InvalidTemperatureDifference
        /\ ~Raised
        /\ IsNaN(A_req)
        /\ n_plates = 0
        /\ stack_depth = Zero

\* C3 witness: the hot outlet is not above the cold inlet, and the run failed
C3_Witness ==
    /\ RLe(T_hot_out, T_cold_in)
    /\ RLt(dT2, Zero)
    /\ InvalidTemperatureDifference

\* C4: with hot_inlet > cold_inlet, Q_actual is the smaller of heat_load and
\* effectiveness * Q_max, and Q_max is the smaller capacity rate times the
\* inlet temperature difference.
C4_ActualTransferIsMin ==
    RGt(T_hot_in, T_cold_in) =>
        LET dT == RSub(T_hot_in, T_cold_in)
            cap == RMul(eff, Q_max)
        IN  /\ RLe(Q_max, RMul(C_hot, dT)) /\ RLe(Q_max, RMul(C_cold, dT))
            /\ REq(Q_max, RMul(C_hot, dT)) \/ REq(Q_max, RMul(C_cold, dT))
            /\ RLe(Q_calc, Q) /\ RLe(Q_calc, cap)
            /\ REq(Q_calc, Q) \/ REq(Q_calc, cap)

\* C4 witness: unequal flows, the smaller one sets Q_max, and the requested
\* load is the binding limit, below eff * Q_max
C4_Witness ==
    /\ RGt(T_hot_in, T_cold_in)
    /\ RGt(C_min, Zero) /\ RLt(C_cold, C_hot)
    /\ REq(Q_calc, Q) /\ RLt(Q, RMul(eff, Q_max))

\* C5 as stated: plate_count = 0 iff the result is a failure or the required
\* area is <= 0; a success with positive area has plate_count >= 1 and a
\* success with area <= 0 has plate_count = 0.
C5_ZeroPlatesIff ==
    ~Raised =>
        /\ (n_plates = 0) <=> (InvalidTemperatureDifference \/ RLe(A_req, Zero))
        /\ (Success /\ RGt(A_req, Zero)) => n_plates >= 1
        /\ (Success /\ RLe(A_req, Zero)) => n_plates = 0

\* C6 as stated: energy balance on each side whose capacity rate is nonzero:
\* C_hot * (hot_inlet - hot_outlet) = Q_actual, C_cold * (cold_outlet -
\* cold_inlet) = Q_actual.
C6_EnergyBalance ==
    /\ ~REq(C_hot, Zero) =>
          REq(RMul(C_hot, RSub(T_hot_in, T_hot_out)), Q_calc)
    /\ ~REq(C_cold, Zero) =>
          REq(RMul(C_cold, RSub(T_cold_out, T_cold_in)), Q_calc)

\* C7: when dT1 = dT2, the LMTD is their arithmetic mean if both are
\* strictly positive, and the area is computed from it; otherwise the result
\* is the failure.
C7_EqualDifferences ==
    REq(dT1, dT2) =>
        IF RGt(dT1, Zero) /\ RGt(dT2, Zero)
        THEN /\ ~InvalidTemperatureDifference
             /\ REq(RMul(Two, LMTD), RAdd(dT1, dT2))
             /\ REq(RMul(A_req, RMul(R(U, 1), dT1)), Q_calc)
        ELSE InvalidTemperatureDifference /\ IsNaN(LMTD)

\* C7 witness: balanced flows with heat transferred up to the effectiveness
\* limit, results shown
C7_Witness ==
    /\ REq(dT1, dT2) /\ RGt(dT1, Zero)
    /\ RGt(Q_calc, Zero) /\ RLt(Q_calc, Q)
    /\ Success /\ n_plates >= 1

\* C8: in every result, success or failure, stack depth = plate_count *
\* plate gap (both 0 on failure).
C8_StackExtent ==
    ~Raised =>
        LET n == n_plates
            depth == stack_depth
        IN  /\ REq(depth, RMul(R(n, 1), plate_gap))
            /\ InvalidTemperatureDifference => n = 0 /\ REq(depth, Zero)

\* C8 witness: a stack of several plates at a plate gap other than the default
C8_Witness ==
    /\ Success /\ n_plates >= 2
    /\ ~REq(plate_gap, R(3, 1000))
    /\ RGt(stack_depth, plate_gap)

\* C9: on success with A_plate > 0, plate_count is the ceiling of
\* A_req / A_plate: plate_count * A_plate >= A_req > (plate_count - 1) * A_plate.
C9_PlateCountIsCeiling ==
    (Success /\ RGt(A_plate, Zero)) =>
        LET n == n_plates
            area == A_req
        IN  /\ RLe(area, RMul(R(n, 1), A_plate))
            /\ RGt(area, RMul(R(n - 1, 1), A_plate))

\* C9 witness: unequal temperature differences (logarithmic LMTD), and the
\* area is not a whole number of plates and is rounded up
C9_Witness ==
    /\ Success /\ RGt(A_plate, Zero) /\ ~REq(dT1, dT2)
    /\ n_plates >= 2
    /\ RLt(A_req, RMul(R(n_plates, 1), A_plate))

\* C10: with hot_inlet > cold_inlet, both flows > 0, heat_load > 0 and
\* effectiveness < 1, dT1 > 0 and dT2 > 0 and the run never fails; a failure
\* with both flows positive needs effectiveness = 1 or hot_inlet <= cold_inlet.
C10_NoCrossBelowFullEffectiveness ==
    /\ ( /\ RGt(T_hot_in, T_cold_in)
         /\ RGt(flow_hot, Zero) /\ RGt(flow_cold, Zero)
         /\ RGt(Q, Zero) /\ RLt(eff, R(1, 1)) ) =>
          /\ RGt(dT1, Zero) /\ RGt(dT2, Zero)
          /\ RGt(T_hot_out, T_cold_in) /\ RLt(T_cold_out, T_hot_in)
          /\ ~InvalidTemperatureDifference
    /\ ( /\ RGt(flow_hot, Zero) /\ RGt(flow_cold, Zero)
         /\ InvalidTemperatureDifference ) =>
          REq(eff, R(1, 1)) \/ RLe(T_hot_in, T_cold_in)

\* C10 witness: the effectiveness limit binds (Q_actual = eff * Q_max below
\* the requested load) and the outlets still do not cross
C10_Witness ==
    /\ RGt(T_hot_in, T_cold_in)
    /\ RGt(flow_hot, Zero) /\ RGt(flow_cold, Zero)
    /\ RLt(Q_calc, Q)
    /\ RGt(dT1, Zero) /\ RGt(dT2, Zero)
    /\ ~InvalidTemperatureDifference

====
